---- MODULE Spec2Model ----
(***************************************************************************)
(* Model of the retrieval backend of hackthon_chatbot:                     *)
(*   - DocumentProcessor._create_chunks (backend/document_processor.py),   *)
(*     the overlapping-window chunker, one action per loop iteration;      *)
(*   - KnowledgeBase (backend/knowledge_base.py), the file-backed store    *)
(*     of chunk metadata and embedding vectors, one action per method;     *)
(*   - the request handlers (backend/main.py) on the server's event loop,  *)
(*     one action per step of the store call they make, and the heartbeat  *)
(*     of the notebooks (databricks_backend_notebook.py), which reads the  *)
(*     store from a second thread.                                         *)
(* Texts are sequences of one-character strings.  Python's 0-based,        *)
(* half-open indexing is kept: position i of a text t is t[i+1].           *)
(***************************************************************************)
EXTENDS Integers, Sequences, FiniteSets, TLC

VARIABLES
    \* ---- chunker (one run of _create_chunks) ----
    text,            \* the argument of _create_chunks
    chunk_size,      \* self.chunk_size
    overlap,         \* self.overlap
    start,           \* the cursor
    chunks,          \* the result list
    spans,           \* history: <<start, end>> of every iteration, in order
    visited,         \* history: cursor values already seen at the loop head
    cpc,             \* position in _create_chunks: "entry", "loop", "done"
    \* ---- knowledge base ----
    documents_data,  \* self.documents_data, an insertion-ordered dict
    embeddings_data, \* self.embeddings_data, an insertion-ordered dict
    documents_file,  \* contents of documents.json
    embeddings_file, \* contents of embeddings.pkl
    last,            \* history: the last operation, its arguments and outcome
                     \* (add: fresh, the filename was in neither map; remove:
                     \* undoes, it follows such an add; clear: cleared, the
                     \* number of records held before; search: error, an
                     \* exception occurred inside, raised, it reached the
                     \* caller)
    failures,        \* history: number of failed mutating operations so far
    \* ---- request handling ----
    tasks,           \* the requests in flight: per slot, the handler's call
                     \* of the store and its position in it
    running,         \* the slots whose handler the event loop is executing
    hb,              \* the heartbeat's list_documents() in the notebook's
                     \* main thread: its iterator, and what it returned
    stable,          \* history: documents_data as the last completed
                     \* in-memory mutation left it
    served,          \* history: the last request that finished
    accepted         \* history: number of requests accepted so far

chunkVars == <<text, chunk_size, overlap, start, chunks, spans, visited, cpc>>
storeVars == <<documents_data, embeddings_data, documents_file,
               embeddings_file, last, failures>>
concVars == <<tasks, running, hb, stable, served, accepted>>
vars == <<text, chunk_size, overlap, start, chunks, spans, visited, cpc,
          documents_data, embeddings_data, documents_file,
          embeddings_file, last, failures,
          tasks, running, hb, stable, served, accepted>>

\* ------------------------------------------------------------------------
\* Bounds
\* ------------------------------------------------------------------------
MaxLen == 6          \* longest text given to the chunker
MaxChunkSize == 4    \* largest chunk_size tried
MaxIters == 8        \* loop iterations explored for one run

Min(a, b) == IF a < b THEN a ELSE b
Max(a, b) == IF a > b THEN a ELSE b

\* ------------------------------------------------------------------------
\* Python string primitives used by the chunker
\* ------------------------------------------------------------------------
Alphabet == {"a", ".", " "}

\* Python's adjustment of a slice index against a length n.
PyIndex(i, n) == IF i < 0 THEN Max(i + n, 0) ELSE Min(i, n)

\* t[i:j]
Slice(t, i, j) ==
    LET s == PyIndex(i, Len(t))
        e == PyIndex(j, Len(t))
    IN  IF s < e THEN SubSeq(t, s + 1, e) ELSE << >>

\* t.rfind(ch, i, j): the highest position in t[i:j] holding ch, else -1.
RFind(t, ch, i, j) ==
    LET s == PyIndex(i, Len(t))
        e == PyIndex(j, Len(t))
        hits == {p \in s..(e - 1) : t[p + 1] = ch}
    IN  IF hits = {} THEN -1
        ELSE CHOOSE p \in hits : \A q \in hits : q <= p

RECURSIVE LStrip(_)
LStrip(t) == IF t # << >> /\ Head(t) = " " THEN LStrip(Tail(t)) ELSE t

RECURSIVE RStrip(_)
RStrip(t) ==
    IF t # << >> /\ t[Len(t)] = " " THEN RStrip(SubSeq(t, 1, Len(t) - 1)) ELSE t

StripRightOnly(t) == RStrip(t)

\* t.strip()
Strip(t) == RStrip(LStrip(t))

\* The texts _clean_text can return: single spaces only, none at either end.
CleanTexts ==
    {t \in UNION {[1..n -> Alphabet] : n \in 0..MaxLen} :
        /\ Strip(t) = t
        /\ \A i \in 1..(Len(t) - 1) : ~(t[i] = " " /\ t[i + 1] = " ")}

\* ------------------------------------------------------------------------
\* DocumentProcessor._create_chunks
\* ------------------------------------------------------------------------
\* The end of the window that starts at s, after the boundary adjustment.
WindowEnd(t, s) ==
    LET end0 == s + chunk_size
        sentence_end == RFind(t, ".", s, end0)
        word_end == RFind(t, " ", s, end0)
    IN  IF end0 < Len(t)
        THEN IF sentence_end > s THEN sentence_end + 1
             ELSE IF word_end > s THEN word_end
             ELSE end0
        ELSE end0

IsShortStrict(t) == Len(t) < chunk_size

\* len(text) <= self.chunk_size
IsShort(t) == Len(t) <= chunk_size

\* if len(text) <= self.chunk_size: return [text]
ChunkShort ==
    /\ cpc = "entry"
    /\ IsShort(text)
    /\ chunks' = <<text>>
    /\ cpc' = "done"
    /\ UNCHANGED <<text, chunk_size, overlap, start, spans, visited>>
    /\ UNCHANGED storeVars
    /\ UNCHANGED concVars

\* chunks = []; start = 0
ChunkEnter ==
    /\ cpc = "entry"
    /\ ~IsShort(text)
    /\ chunks' = << >>
    /\ start' = 0
    /\ cpc' = "loop"
    /\ UNCHANGED <<text, chunk_size, overlap, spans, visited>>
    /\ UNCHANGED storeVars
    /\ UNCHANGED concVars

AdvanceNoOverlap(end) == end

AdvancePast(end) == end - overlap + 1

\* start = end - self.overlap
Advance(end) == end - overlap

\* One iteration of "while start < len(text)", through the break test
\* "if start >= len(text): break" that ends it.
ChunkIter ==
    /\ cpc = "loop"
    /\ start < Len(text)
    /\ Len(spans) < MaxIters
    /\ LET end == WindowEnd(text, start)
           chunk == Strip(Slice(text, start, end))
       IN  /\ chunks' = IF chunk # << >> THEN Append(chunks, chunk) ELSE chunks
           /\ spans' = Append(spans, <<start, end>>)
           /\ visited' = visited \cup {start}
           /\ start' = Advance(end)
           /\ cpc' = IF Advance(end) >= Len(text) THEN "done" ELSE "loop"
    /\ UNCHANGED <<text, chunk_size, overlap>>
    /\ UNCHANGED storeVars
    /\ UNCHANGED concVars

\* A persisted file: missing, unparsable, or holding a serialized dict.
AbsentFile == [st |-> "absent", data |-> << >>]
CorruptFile == [st |-> "corrupt", data |-> << >>]

NoOp == [op |-> "none"]

\* The request slots: the requests that can be in flight at once.
Slots == {1, 2}

FreeSlot == [kind |-> "none"]

\* The heartbeat between two calls of list_documents().
HbAsleep == [pc |-> "sleep", n |-> 0, result |-> << >>, legal |-> {<< >>}]

\* No request in flight, the heartbeat asleep.
ConcIdle ==
    /\ tasks = [t \in Slots |-> FreeSlot]
    /\ running = {}
    /\ hb = HbAsleep
    /\ stable = << >>
    /\ served = NoOp
    /\ accepted = 0

\* KnowledgeBase() on a storage directory that holds no file yet.
StoreIdle ==
    /\ documents_data = << >>
    /\ embeddings_data = << >>
    /\ documents_file = AbsentFile
    /\ embeddings_file = AbsentFile
    /\ last = NoOp
    /\ failures = 0
    /\ ConcIdle

InitChunk ==
    /\ text \in CleanTexts
    /\ chunk_size \in 1..MaxChunkSize
    /\ overlap \in 0..(chunk_size - 1)
    /\ start = 0
    /\ chunks = << >>
    /\ spans = << >>
    /\ visited = {}
    /\ cpc = "entry"
    /\ StoreIdle

NextChunk == ChunkShort \/ ChunkEnter \/ ChunkIter

SpecChunk == InitChunk /\ [][NextChunk]_vars

\* DocumentProcessor(chunk_size, overlap): __init__ stores the two numbers as
\* they are given, so a run can start from any pair of them.
InitConfig ==
    /\ text \in CleanTexts
    /\ chunk_size \in 0..MaxChunkSize
    /\ overlap \in 0..MaxChunkSize
    /\ start = 0
    /\ chunks = << >>
    /\ spans = << >>
    /\ visited = {}
    /\ cpc = "entry"
    /\ StoreIdle

SpecConfig == InitConfig /\ [][NextChunk]_vars

\* ------------------------------------------------------------------------
\* KnowledgeBase: data
\* ------------------------------------------------------------------------
MaxFailures == 1     \* failed mutating operations explored in one behaviour
MaxK == 2            \* largest n_results tried

Docs == {"a", "b"}                       \* filenames
Queries == {<<"z">>}                     \* query strings
\* the chunk lists given to add_document
ChunkLists == {<<<<"p">>>>, <<<<"q", "q">>, <<"p">>>>}

\* embedding_model.encode: a fixed, deterministic map from a string to a
\* vector.  The vectors all have norm 5, so every cosine is an exact multiple
\* of 1/25.
Embed(t) ==
    CASE t = <<"p">> -> <<5, 0>>
      [] t = <<"q", "q">> -> <<3, 4>>
      [] t = <<"z">> -> <<4, 3>>
      [] t = <<"n">> -> <<-5, 0>>
      [] OTHER -> <<0, 5>>

\* Similarities and distances are counted in hundredths: Scale stands for 1.0.
Scale == 100

Dot(u, v) == u[1] * v[1] + u[2] * v[2]

\* the integer square root of the squared length, exact for these vectors
ISqrt(n) == IF n = 25 THEN 5 ELSE CHOOSE r \in 0..n : r * r <= n /\ n < (r + 1) * (r + 1)

Norm(u) == ISqrt(Dot(u, u))

\* sklearn cosine_similarity(u, v)[0][0]
CosineSimilarity(u, v) == (Dot(u, v) * Scale) \div (Norm(u) * Norm(v))

\* f"{filename}_chunk_{i}".  The string is an injective function of the pair
\* (the decimal index has no "_"), so the pair stands for the string.
ChunkId(filename, i) == <<filename, i>>

\* A dict is a sequence of [key, val] entries with distinct keys, in insertion
\* order.
DictKeys(d) == {d[i].key : i \in DOMAIN d}

DictGet(d, k) == d[CHOOSE i \in DOMAIN d : d[i].key = k].val

\* d[k] = v: an existing key keeps its place.
DictPut(d, k, v) ==
    IF k \in DictKeys(d)
    THEN [i \in DOMAIN d |-> IF d[i].key = k THEN [key |-> k, val |-> v] ELSE d[i]]
    ELSE Append(d, [key |-> k, val |-> v])

DictDelNone(d, ks) == d

\* del d[k] for every k of ks that d holds
DictDel(d, ks) ==
    LET keep(e) == e.key \notin ks
    IN  SelectSeq(d, keep)

\* json.dump / json.load and pickle.dump / pickle.load keep the keys, the
\* values and the order of the dict they are given.

\* _load_documents / _load_embeddings: {} when the file is missing or when
\* reading it raises.
LoadFile(f) == IF f.st = "ok" THEN f.data ELSE << >>

\* What open(file, 'w') followed by dump leaves behind.  "ok": the dict is
\* written.  "open": open raises, the file is untouched.  "write": the file
\* was truncated and the write raises part-way.
SaveOutcomes == {"ok", "open", "write"}

SaveFileSkipped(data, outcome, old) == old

SaveFile(data, outcome, old) ==
    CASE outcome = "ok" -> [st |-> "ok", data |-> data]
      [] outcome = "open" -> old
      [] OTHER -> CorruptFile

\* ------------------------------------------------------------------------
\* KnowledgeBase: the methods' computations
\* ------------------------------------------------------------------------
\* add_document, the loop over enumerate(text_chunks), on documents_data
RECURSIVE AddChunks(_, _, _, _)
AddChunks(d, filename, text_chunks, i) ==
    IF i >= Len(text_chunks) THEN d
    ELSE AddChunks(DictPut(d, ChunkId(filename, i),
                           [filename |-> filename,
                            chunk_index |-> i,
                            text |-> text_chunks[i + 1],
                            chunk_size |-> Len(text_chunks[i + 1])]),
                   filename, text_chunks, i + 1)

\* add_document, the same loop on embeddings_data
RECURSIVE AddEmbeddings(_, _, _, _)
AddEmbeddings(d, filename, text_chunks, i) ==
    IF i >= Len(text_chunks) THEN d
    ELSE AddEmbeddings(DictPut(d, ChunkId(filename, i), Embed(text_chunks[i + 1])),
                       filename, text_chunks, i + 1)

IdsToRemoveFirstOnly(d, filename) ==
    {d[i].key : i \in {j \in DOMAIN d : d[j].val.filename = filename
                                        /\ d[j].val.chunk_index = 0}}

\* remove_document: chunk_ids_to_remove
IdsToRemove(d, filename) ==
    {d[i].key : i \in {j \in DOMAIN d : d[j].val.filename = filename}}

RemoveSavesAlways(ids) == TRUE

\* remove_document: "if chunk_ids_to_remove:" guards the two saves
RemoveSaves(ids) == ids # {}

TallyCountOnly(stat, doc_data) ==
    [filename |-> stat.filename,
     chunk_count |-> stat.chunk_count + 1,
     total_size |-> stat.total_size]

\* list_documents: chunk_count += 1; total_size += doc_data.get("chunk_size", 0)
Tally(stat, doc_data) ==
    [filename |-> stat.filename,
     chunk_count |-> stat.chunk_count + 1,
     total_size |-> stat.total_size + doc_data.chunk_size]

\* list_documents: one entry per filename, in first-seen order
RECURSIVE ListDocumentsFrom(_, _, _)
ListDocumentsFrom(d, i, stats) ==
    IF i > Len(d) THEN stats
    ELSE LET v == d[i].val
             seen == \E j \in DOMAIN stats : stats[j].filename = v.filename
             stats1 == IF seen THEN stats
                       ELSE Append(stats, [filename |-> v.filename,
                                           chunk_count |-> 0,
                                           total_size |-> 0])
             stats2 == [j \in DOMAIN stats1 |->
                          IF stats1[j].filename = v.filename
                          THEN Tally(stats1[j], v)
                          ELSE stats1[j]]
         IN  ListDocumentsFrom(d, i + 1, stats2)

ListDocuments(d) == ListDocumentsFrom(d, 1, << >>)

\* The store as a whole, for the history variables.
Snapshot == [docs |-> documents_data, emb |-> embeddings_data,
             dfile |-> documents_file, efile |-> embeddings_file]

\* ------------------------------------------------------------------------
\* KnowledgeBase: the operations
\* ------------------------------------------------------------------------
\* The outcomes explored for _save_documents() followed by _save_embeddings():
\* the second save only runs when the first returned.
SavePairs == {<<o1, o2>> \in SaveOutcomes \X SaveOutcomes : o1 # "ok" => o2 = "ok"}

Saved(o) == o[1] = "ok" /\ o[2] = "ok"

\* The store s after _save_documents() and _save_embeddings() with outcomes o.
SaveBoth(s, o) ==
    [docs |-> s.docs, emb |-> s.emb,
     dfile |-> SaveFile(s.docs, o[1], s.dfile),
     efile |-> IF o[1] = "ok" THEN SaveFile(s.emb, o[2], s.efile) ELSE s.efile]

\* add_document(filename, text_chunks) on store s.  encOk: encode returns.
AddEffect(s, filename, text_chunks, encOk, o) ==
    IF encOk
    THEN SaveBoth([docs |-> AddChunks(s.docs, filename, text_chunks, 0),
                   emb |-> AddEmbeddings(s.emb, filename, text_chunks, 0),
                   dfile |-> s.dfile, efile |-> s.efile], o)
    ELSE s

\* remove_document(filename) on store s
RemoveEffect(s, filename, o) ==
    LET ids == IdsToRemove(s.docs, filename)
        s1 == [docs |-> DictDel(s.docs, ids), emb |-> DictDel(s.emb, ids),
               dfile |-> s.dfile, efile |-> s.efile]
    IN  IF RemoveSaves(ids) THEN SaveBoth(s1, o) ELSE s1

ClearEffectMemoryOnly(s, o) ==
    [docs |-> << >>, emb |-> << >>, dfile |-> s.dfile, efile |-> s.efile]

\* clear_all() on store s
ClearEffect(s, o) ==
    SaveBoth([docs |-> << >>, emb |-> << >>,
              dfile |-> s.dfile, efile |-> s.efile], o)

\* KnowledgeBase() on the storage directory of s
LoadEffect(s) ==
    [docs |-> LoadFile(s.dfile), emb |-> LoadFile(s.efile),
     dfile |-> s.dfile, efile |-> s.efile]

\* s holds no chunk of x in either map: no record with that filename in
\* documents_data, no vector under one of its chunk ids in embeddings_data
FreshFor(s, x) ==
    /\ \A i \in DOMAIN s.docs : s.docs[i].val.filename # x
    /\ \A i \in DOMAIN s.emb : s.emb[i].key[1] # x

Becomes(s) ==
    /\ documents_data' = s.docs
    /\ embeddings_data' = s.emb
    /\ documents_file' = s.dfile
    /\ embeddings_file' = s.efile

AddDocument ==
    \E filename \in Docs, text_chunks \in ChunkLists, encOk \in BOOLEAN,
       o \in SavePairs :
        LET ok == encOk /\ Saved(o)
            nfail == IF ok THEN 0 ELSE 1
        IN  /\ failures + nfail <= MaxFailures
            /\ ~encOk => Saved(o)
            /\ Becomes(AddEffect(Snapshot, filename, text_chunks, encOk, o))
            /\ last' = [op |-> "add", filename |-> filename,
                        text_chunks |-> text_chunks, ok |-> ok,
                        fresh |-> FreshFor(Snapshot, filename)]
            /\ failures' = failures + nfail
            /\ UNCHANGED chunkVars
            /\ UNCHANGED concVars

RemoveDocument ==
    \E filename \in Docs, o \in SavePairs :
        LET ids == IdsToRemove(documents_data, filename)
            ok == RemoveSaves(ids) => Saved(o)
            nfail == IF ok THEN 0 ELSE 1
        IN  /\ failures + nfail <= MaxFailures
            /\ ~RemoveSaves(ids) => Saved(o)
            /\ Becomes(RemoveEffect(Snapshot, filename, o))
            /\ last' = [op |-> "remove", filename |-> filename,
                        removed |-> Cardinality(ids), ok |-> ok,
                        undoes |-> /\ last.op = "add"
                                   /\ last.ok
                                   /\ last.fresh
                                   /\ last.filename = filename]
            /\ failures' = failures + nfail
            /\ UNCHANGED chunkVars
            /\ UNCHANGED concVars

ClearAll ==
    \E o \in SavePairs :
        LET nfail == IF Saved(o) THEN 0 ELSE 1
        IN  /\ failures + nfail <= MaxFailures
            /\ Becomes(ClearEffect(Snapshot, o))
            /\ last' = [op |-> "clear", ok |-> Saved(o),
                        cleared |-> Len(documents_data)]
            /\ failures' = failures + nfail
            /\ UNCHANGED chunkVars
            /\ UNCHANGED concVars

\* A fresh store object on the same storage directory (process restart):
\* __init__ calls _load_documents and _load_embeddings.
LoadStore ==
    /\ Becomes(LoadEffect(Snapshot))
    /\ last' = [op |-> "load"]
    /\ UNCHANGED failures
    /\ UNCHANGED chunkVars
    /\ UNCHANGED concVars

\* search_similar, the scan of embeddings_data.items(): the parallel lists
\* chunk_ids and similarities, for the ids that documents_data holds.
RECURSIVE Scan(_, _, _, _, _)
Scan(docs, emb, qv, i, acc) ==
    IF i > Len(emb) THEN acc
    ELSE Scan(docs, emb, qv, i + 1,
              IF emb[i].key \in DictKeys(docs)
              THEN [chunk_ids |-> Append(acc.chunk_ids, emb[i].key),
                    similarities |-> Append(acc.similarities,
                                            CosineSimilarity(qv, emb[i].val))]
              ELSE acc)

\* np.argsort(similarities): the index orders that sort sims ascending.  The
\* default sort kind is not stable, so equal values may come in any order.
RECURSIVE ArgSorts(_, _)
ArgSorts(sims, S) ==
    IF S = {} THEN {<< >>}
    ELSE UNION {{<<i>> \o r : r \in ArgSorts(sims, S \ {i})} :
                  i \in {j \in S : \A m \in S : sims[j] <= sims[m]}}

\* order[::-1]
RECURSIVE Reverse(_)
Reverse(s) == IF s = << >> THEN << >> ELSE Append(Reverse(Tail(s)), Head(s))

TopAscending(order, n_results) == SubSeq(order, 1, Min(n_results, Len(order)))

\* sorted_indices = order[::-1][:n_results]
Top(order, n_results) == SubSeq(Reverse(order), 1, Min(n_results, Len(order)))

\* 1 - similarity
Distance(similarity) == Scale - similarity

\* search_similar, the loop over sorted_indices: the three result lists, and
\* with them the chunk id of every position.
RECURSIVE Extract(_, _, _, _, _)
Extract(docs, scan, sorted_indices, i, acc) ==
    IF i > Len(sorted_indices) THEN acc
    ELSE LET idx == sorted_indices[i]
             chunk_id == scan.chunk_ids[idx]
             doc_data == DictGet(docs, chunk_id)
         IN  Extract(docs, scan, sorted_indices, i + 1,
                     [ids |-> Append(acc.ids, chunk_id),
                      documents |-> Append(acc.documents, doc_data.text),
                      sources |-> Append(acc.sources, doc_data.filename),
                      distances |-> Append(acc.distances,
                                           Distance(scan.similarities[idx]))])

EmptyResultNone == [ids |-> << >>, documents |-> <<"None">>,
                    sources |-> <<"None">>, distances |-> <<0>>]

\* return [], [], []
EmptyResult == [ids |-> << >>, documents |-> << >>, sources |-> << >>,
                distances |-> << >>]

\* The results search_similar(query, n_results) can return on (docs, emb)
\* when nothing raises.
SearchResults(docs, emb, query, n_results) ==
    IF docs = << >> \/ emb = << >> THEN {EmptyResult}
    ELSE LET scan == Scan(docs, emb, Embed(query), 1,
                          [chunk_ids |-> << >>, similarities |-> << >>])
         IN  {Extract(docs, scan, Top(order, n_results), 1, EmptyResult) :
                order \in ArgSorts(scan.similarities, DOMAIN scan.similarities)}

\* search_similar(query, n_results).  An exception inside the try block (the
\* embedding provider failing) is caught and the empty result returned:
\* search_similar never raises.
SearchSimilar ==
    \E query \in Queries, n_results \in 0..MaxK, encOk \in BOOLEAN :
        /\ (documents_data = << >> \/ embeddings_data = << >>) => encOk
        /\ \E res \in IF encOk
                      THEN SearchResults(documents_data, embeddings_data,
                                         query, n_results)
                      ELSE {EmptyResult} :
             last' = [op |-> "search", query |-> query, n_results |-> n_results,
                      error |-> ~encOk, raised |-> FALSE, result |-> res]
        /\ UNCHANGED <<documents_data, embeddings_data,
                       documents_file, embeddings_file, failures>>
        /\ UNCHANGED chunkVars
        /\ UNCHANGED concVars

Init ==
    /\ StoreIdle
    /\ text = << >>
    /\ chunk_size = 1
    /\ overlap = 0
    /\ start = 0
    /\ chunks = << >>
    /\ spans = << >>
    /\ visited = {}
    /\ cpc = "done"

\* The store under its mutating operations and restarts.
Next ==
    \/ AddDocument
    \/ RemoveDocument
    \/ ClearAll
    \/ LoadStore

Spec == Init /\ [][Next]_vars

\* The same store, queried as well.
NextSearch ==
    \/ AddDocument
    \/ RemoveDocument
    \/ ClearAll
    \/ LoadStore
    \/ SearchSimilar

SpecSearch == Init /\ [][NextSearch]_vars

\* The same behaviours, for the properties of single steps.
SpecSteps == Init /\ [][NextSearch]_vars

\* ------------------------------------------------------------------------
\* ChatHandler: generate_response
\* ------------------------------------------------------------------------
\* the queries put to the chat endpoint: "z" is near every stored chunk, "o"
\* is near the chunk "qq" and at distance exactly 1.0 from the chunk "p"
ChatQueries == {<<"z">>, <<"o">>}

\* search_similar(query, n_results=5)
NResults == 5

\* distance_threshold = 1.0, in hundredths
DistanceThreshold == 100

\* documents[:3]
ContextDocs == 3

IsRelevantAlways(distance) == TRUE

\* distance < distance_threshold
IsRelevant(distance) == distance < DistanceThreshold

\* The positions of the retrieved chunks that pass the distance filter, in
\* retrieval order.
RelevantIdx(res) ==
    LET keep(i) == IsRelevant(res.distances[i])
    IN  SelectSeq([i \in DOMAIN res.documents |-> i], keep)

\* list(set(l)): the distinct elements of l, in the order the set yields
\* them, which the language does not fix.
RECURSIVE Orders(_)
Orders(S) ==
    IF S = {} THEN {<< >>}
    ELSE UNION {{<<x>> \o r : r \in Orders(S \ {x})} : x \in S}

\* The answers generate_response can return.  "llm": the text the endpoint
\* produced for the prompt built from context; the other four are fixed
\* strings.
Answer(kind, context) == [kind |-> kind, context |-> context]

\* _generate_databricks_response: the prompt holds documents[:3]
LlmContext(documents) == SubSeq(documents, 1, Min(ContextDocs, Len(documents)))

\* generate_response(query, use_openai).  llmOk: the call of the serving
\* endpoint returns an answer; otherwise _generate_databricks_response
\* raises.  encOk: the embedding of the query inside search_similar.
GenerateResponse ==
    \E query \in ChatQueries, use_openai \in BOOLEAN, llmOk \in BOOLEAN,
       encOk \in BOOLEAN :
        /\ (documents_data = << >> \/ embeddings_data = << >>) => encOk
        /\ \E res \in IF encOk
                      THEN SearchResults(documents_data, embeddings_data,
                                         query, NResults)
                      ELSE {EmptyResult} :
             LET idx == RelevantIdx(res)
                 relevant_docs == [k \in DOMAIN idx |-> res.documents[idx[k]]]
                 relevant_sources == [k \in DOMAIN idx |-> res.sources[idx[k]]]
                 called == relevant_docs # << >> /\ use_openai
                 response ==
                     IF res.documents = << >> THEN Answer("no_content", << >>)
                     ELSE IF relevant_docs = << >>
                     THEN Answer("no_relevant", << >>)
                     ELSE IF use_openai
                     THEN IF llmOk
                          THEN Answer("llm", LlmContext(relevant_docs))
                          ELSE Answer("llm_exception", << >>)
                     ELSE Answer("no_fallback", << >>)
             IN  /\ ~called => llmOk
                 /\ \E unique_sources \in
                        Orders({relevant_sources[k] : k \in DOMAIN relevant_sources}) :
                      last' = [op |-> "chat", query |-> query,
                               use_openai |-> use_openai,
                               retrieved |-> res,
                               llm_called |-> called,
                               llm_docs |-> IF called THEN relevant_docs ELSE << >>,
                               llm_failed |-> called /\ ~llmOk,
                               response |-> response,
                               sources |-> unique_sources,
                               raised |-> FALSE]
        /\ UNCHANGED <<documents_data, embeddings_data,
                       documents_file, embeddings_file, failures>>
        /\ UNCHANGED chunkVars
        /\ UNCHANGED concVars

MaxAdds == 2         \* add_document calls behind the store a chat starts on

\* The stores that at most n calls of add_document, with any outcome of
\* encode and of the saves, and restarts in between leave behind.
RECURSIVE StoresAfter(_)
StoresAfter(n) ==
    IF n = 0
    THEN {[docs |-> << >>, emb |-> << >>,
           dfile |-> AbsentFile, efile |-> AbsentFile]}
    ELSE LET prev == StoresAfter(n - 1)
             added == {AddEffect(s, filename, text_chunks, encOk, o) :
                         s \in prev, filename \in Docs,
                         text_chunks \in ChunkLists, encOk \in BOOLEAN,
                         o \in SavePairs}
         IN  prev \cup added \cup {LoadEffect(s) : s \in added}

\* generate_response reads the store and leaves it alone: the store it is
\* asked on is its input.
InitChat ==
    /\ \E s \in StoresAfter(MaxAdds) :
           /\ documents_data = s.docs
           /\ embeddings_data = s.emb
           /\ documents_file = s.dfile
           /\ embeddings_file = s.efile
    /\ last = NoOp
    /\ failures = 0
    /\ ConcIdle
    /\ text = << >>
    /\ chunk_size = 1
    /\ overlap = 0
    /\ start = 0
    /\ chunks = << >>
    /\ spans = << >>
    /\ visited = {}
    /\ cpc = "done"

NextChat == GenerateResponse

SpecChat == InitChat /\ [][NextChat]_vars

\* ------------------------------------------------------------------------
\* Ingestion: the upload endpoint and the scan of the upload folder
\* ------------------------------------------------------------------------
MaxFolder == 2       \* files in the upload folder

\* The suffixes of the files offered; a name of Docs stands for the whole
\* file name, the suffix is carried beside it.
Suffixes == {".pdf", ".txt"}

\* supported_extensions / allowed_extensions
Supported == {".pdf", ".docx", ".doc"}

Files == [name : Docs, suffix : Suffixes]

\* The chunks process_document returns for a file when it returns: the
\* content of a file is fixed by its name.
FileChunks(file_name) ==
    IF file_name = "a" THEN <<<<"p">>>> ELSE <<<<"q", "q">>, <<"p">>>>

\* What happens to one file once it is processed: process_document returns
\* or raises (extOk), encode returns or raises (encOk), and the two saves of
\* add_document end as o.
FileFates ==
    {f \in [extOk : BOOLEAN, encOk : BOOLEAN, o : SavePairs] :
        /\ ~f.extOk => f.encOk
        /\ ~(f.extOk /\ f.encOk) => Saved(f.o)}

\* add_document raises under this fate
Fails(f) == f.extOk /\ ~(f.encOk /\ Saved(f.o))

\* The directory listings explored: files with distinct names, in the order
\* iterdir() gives them.
Folders ==
    {<< >>} \cup {<<f>> : f \in Files}
            \cup {<<f, g>> : <<f, g>> \in {p \in Files \X Files : p[1].name # p[2].name}}

\* scan_upload_folder: the files with a supported suffix
ScanUploadFolder(folder) ==
    LET ok(f) == f.suffix \in Supported
    IN  SelectSeq(folder, ok)

StrEqualsFilename(s, d) == s = d.filename

\* str == dict: a file name never equals an entry of list_documents()
StrEqualsDict(s, d) == FALSE

\* file_name in existing_docs
AlreadyListed(file_name, existing_docs) ==
    \E j \in DOMAIN existing_docs : StrEqualsDict(file_name, existing_docs[j])

NextFileAbort(i, n) == n + 1

\* the except clause records the error and the for loop goes on
NextFile(i, n) == i + 1

\* f"Error processing {name}: {e}"
ErrorMsg(file_name) == <<"Error processing", file_name>>

NoResults == [processed_files |-> << >>, skipped_files |-> << >>,
              errors |-> << >>, total_chunks |-> 0]

\* process_upload_folder, the loop over document_files from position i on
\* store s; failed counts the add_document calls that raised.
RECURSIVE ScanFiles(_, _, _, _, _, _)
ScanFiles(s, document_files, fates, i, results, failed) ==
    IF i > Len(document_files)
    THEN [store |-> s, results |-> results, failed |-> failed]
    ELSE LET file_name == document_files[i].name
             fate == fates[i]
             n == Len(document_files)
             existing_docs == ListDocuments(s.docs)
             text_chunks == FileChunks(file_name)
             s1 == AddEffect(s, file_name, text_chunks, fate.encOk, fate.o)
         IN  IF AlreadyListed(file_name, existing_docs)
             THEN ScanFiles(s, document_files, fates, i + 1,
                            [results EXCEPT !.skipped_files = Append(@, file_name)],
                            failed)
             ELSE IF ~fate.extOk
             THEN ScanFiles(s, document_files, fates, NextFile(i, n),
                            [results EXCEPT !.errors = Append(@, ErrorMsg(file_name))],
                            failed)
             ELSE IF Fails(fate)
             THEN ScanFiles(s1, document_files, fates, NextFile(i, n),
                            [results EXCEPT !.errors = Append(@, ErrorMsg(file_name))],
                            failed + 1)
             ELSE ScanFiles(s1, document_files, fates, i + 1,
                            [results EXCEPT
                                !.processed_files = Append(@, file_name),
                                !.total_chunks = @ + Len(text_chunks)],
                            failed)

\* the filenames list_documents() reports
Listed(d) == {ListDocuments(d)[j].filename : j \in DOMAIN ListDocuments(d)}

\* process_upload_folder(folder_path, knowledge_base), as startup_event calls
\* it on the upload directory.
ProcessUploadFolder ==
    \E folder \in Folders :
      \E fates \in [1..Len(ScanUploadFolder(folder)) -> FileFates] :
        LET document_files == ScanUploadFolder(folder)
            out == ScanFiles(Snapshot, document_files, fates, 1, NoResults, 0)
        IN  /\ failures + Cardinality({i \in DOMAIN fates : Fails(fates[i])})
                   <= MaxFailures
            /\ failures + out.failed <= MaxFailures
            /\ Becomes(out.store)
            /\ last' = [op |-> "scan", folder |-> folder,
                        document_files |-> document_files,
                        before |-> Listed(documents_data),
                        results |-> out.results, raised |-> FALSE]
            /\ failures' = failures + out.failed
            /\ UNCHANGED chunkVars
            /\ UNCHANGED concVars

\* POST /upload.  The suffix test raises HTTPException(400) inside the try
\* block; HTTPException derives from Exception, so the handler's own
\* "except Exception" catches it and raises HTTPException(500) in its place.
\* wrote: the copy into the upload directory succeeded.
UploadDocument ==
    \E file \in Files, wrote \in BOOLEAN, fate \in FileFates :
        LET allowed == file.suffix \in Supported
            added == allowed /\ wrote /\ fate.extOk
            ok == added /\ ~Fails(fate)
            nfail == IF added /\ ~ok THEN 1 ELSE 0
            text_chunks == FileChunks(file.name)
            s1 == IF added
                  THEN AddEffect(Snapshot, file.name, text_chunks,
                                 fate.encOk, fate.o)
                  ELSE Snapshot
        IN  /\ failures + nfail <= MaxFailures
            /\ ~(allowed /\ wrote) => fate = [extOk |-> FALSE, encOk |-> TRUE,
                                             o |-> <<"ok", "ok">>]
            /\ ~allowed => ~wrote
            /\ Becomes(s1)
            /\ last' = [op |-> "upload", file |-> file,
                        status |-> IF ok THEN 200 ELSE 500,
                        wrote |-> allowed /\ wrote,
                        added |-> added,
                        chunks_created |-> IF ok THEN Len(text_chunks) ELSE 0]
            /\ failures' = failures + nfail
            /\ UNCHANGED chunkVars
            /\ UNCHANGED concVars

\* The store behind the upload endpoint, the startup scan, the delete
\* endpoint and restarts.
NextIngest ==
    \/ UploadDocument
    \/ ProcessUploadFolder
    \/ RemoveDocument
    \/ LoadStore

SpecIngest == Init /\ [][NextIngest]_vars

\* ------------------------------------------------------------------------
\* Request handling: the server's event loop and the notebook's heartbeat
\* ------------------------------------------------------------------------
\* The FastAPI handlers are coroutines (async def) that call the store
\* synchronously: once the event loop has started one it runs to its return
\* before the loop starts another.  In the notebooks the server runs in a
\* background thread while the main thread calls list_documents() once a
\* minute; the two threads interleave between any two statements.
MaxRequests == 2     \* requests accepted in one behaviour
MaxHeartbeats == 1   \* heartbeat calls of list_documents() in one behaviour

MutatingHandlers == {"upload", "delete", "clear"}

\* the store call a handler makes: upload_document -> add_document,
\* delete_document -> remove_document, clear_all_documents -> clear_all,
\* list_documents -> list_documents
NewTask(kind, filename, text_chunks) ==
    [kind |-> kind, filename |-> filename, text_chunks |-> text_chunks,
     pc |-> CASE kind = "upload" -> "encode"
              [] kind = "delete" -> "find"
              [] kind = "clear" -> "clear"
              [] OTHER -> "list",
     i |-> 0, ids |-> << >>]

Requests ==
    {NewTask("upload", f, c) : f \in Docs, c \in ChunkLists}
       \cup {NewTask("delete", f, << >>) : f \in Docs}
       \cup {NewTask("clear", "", << >>), NewTask("list", "", << >>)}

\* a request arrives and waits for the event loop
Accept ==
    \E t \in Slots, r \in Requests :
        /\ tasks[t] = FreeSlot
        /\ accepted < MaxRequests
        /\ tasks' = [tasks EXCEPT ![t] = r]
        /\ accepted' = accepted + 1
        /\ UNCHANGED <<running, hb, stable, served>>
        /\ UNCHANGED <<documents_data, embeddings_data, documents_file,
                       embeddings_file, last, failures>>
        /\ UNCHANGED chunkVars

CanDispatchThreaded(r) == TRUE

\* the event loop starts a handler when it is executing none
CanDispatch(r) == r = {}

Dispatch ==
    \E t \in Slots :
        /\ tasks[t] # FreeSlot
        /\ t \notin running
        /\ CanDispatch(running)
        /\ running' = running \cup {t}
        /\ UNCHANGED <<tasks, hb, stable, served, accepted>>
        /\ UNCHANGED <<documents_data, embeddings_data, documents_file,
                       embeddings_file, last, failures>>
        /\ UNCHANGED chunkVars

\* the handler of slot t returns or raises
Finish(t, ok, view) ==
    /\ tasks' = [tasks EXCEPT ![t] = FreeSlot]
    /\ running' = running \ {t}
    /\ served' = [op |-> tasks[t].kind, ok |-> ok, view |-> view,
                  legal |-> ListDocuments(stable)]
    /\ failures' = IF ok THEN failures ELSE failures + 1

Goto(t, pc) ==
    /\ tasks' = [tasks EXCEPT ![t].pc = pc]
    /\ UNCHANGED <<running, served, failures>>

At(t, kinds, pc) ==
    /\ t \in running
    /\ tasks[t].kind \in kinds
    /\ tasks[t].pc = pc

\* The heartbeat's iterator after the server thread changed the dict it
\* iterates: del d[k] for the keys ks, or an assignment to a key.  CPython
\* keeps the entries in place, so a deleted key is no longer behind the
\* iterator; after any change of the dict the iteration "may fail to iterate
\* over all entries".
HbTouched(h, ks) ==
    IF h.pc = "iter" /\ ~h.detached
    THEN [h EXCEPT !.dirty = TRUE, !.seen = @ \ ks]
    ELSE h

\* The heartbeat's iterator after "self.documents_data = {}": the name is
\* bound to a new dict and the iterator keeps the old one.
HbDetached(h, old) ==
    IF h.pc = "iter" /\ ~h.detached
    THEN [h EXCEPT !.detached = TRUE, !.own = old]
    ELSE h

\* a completed in-memory mutation is a state a reader may see
HbLegal(h, d) == IF h.pc = "iter" THEN [h EXCEPT !.legal = @ \cup {d}] ELSE h

\* add_document: embeddings = self.embedding_model.encode(text_chunks)
UploadEncode ==
    \E t \in Slots, encOk \in BOOLEAN :
        /\ At(t, {"upload"}, "encode")
        /\ ~encOk => failures < MaxFailures
        /\ IF encOk THEN Goto(t, "store") ELSE Finish(t, FALSE, << >>)
        /\ UNCHANGED <<hb, stable, accepted>>
        /\ UNCHANGED <<documents_data, embeddings_data, documents_file,
                       embeddings_file, last>>
        /\ UNCHANGED chunkVars

\* add_document: one iteration of the loop over enumerate(text_chunks)
UploadStore ==
    \E t \in Slots :
        LET r == tasks[t]
            upto == SubSeq(r.text_chunks, 1, r.i + 1)
            isLast == r.i + 1 = Len(r.text_chunks)
        IN  /\ At(t, {"upload"}, "store")
            /\ documents_data' = AddChunks(documents_data, r.filename, upto, r.i)
            /\ embeddings_data' = AddEmbeddings(embeddings_data, r.filename,
                                                upto, r.i)
            /\ tasks' = [tasks EXCEPT ![t].i = r.i + 1,
                                      ![t].pc = IF isLast THEN "save_docs"
                                                ELSE "store"]
            /\ stable' = IF isLast THEN documents_data' ELSE stable
            /\ hb' = IF isLast THEN HbLegal(HbTouched(hb, {}), documents_data')
                     ELSE HbTouched(hb, {})
            /\ UNCHANGED <<running, served, accepted>>
            /\ UNCHANGED <<documents_file, embeddings_file, last, failures>>
            /\ UNCHANGED chunkVars

\* the keys of ks in the order of the dict d
RECURSIVE InOrder(_, _)
InOrder(d, ks) ==
    IF d = << >> THEN << >>
    ELSE IF Head(d).key \in ks THEN <<Head(d).key>> \o InOrder(Tail(d), ks)
    ELSE InOrder(Tail(d), ks)

\* remove_document: the loop that collects chunk_ids_to_remove; with none
\* found the method returns without saving
DeleteFind ==
    \E t \in Slots :
        LET ids == InOrder(documents_data,
                           IdsToRemove(documents_data, tasks[t].filename))
        IN  /\ At(t, {"delete"}, "find")
            /\ IF RemoveSaves(IdsToRemove(documents_data, tasks[t].filename))
               THEN /\ tasks' = [tasks EXCEPT ![t].ids = ids,
                                              ![t].pc = "delete"]
                    /\ UNCHANGED <<running, served, failures>>
               ELSE Finish(t, TRUE, << >>)
            /\ UNCHANGED <<hb, stable, accepted>>
            /\ UNCHANGED <<documents_data, embeddings_data, documents_file,
                           embeddings_file, last>>
            /\ UNCHANGED chunkVars

\* remove_document: one iteration of the loop over chunk_ids_to_remove
DeleteStep ==
    \E t \in Slots :
        LET r == tasks[t]
            k == {Head(r.ids)}
            isLast == Len(r.ids) = 1
        IN  /\ At(t, {"delete"}, "delete")
            /\ documents_data' = DictDel(documents_data, k)
            /\ embeddings_data' = DictDel(embeddings_data, k)
            /\ tasks' = [tasks EXCEPT ![t].ids = Tail(r.ids),
                                      ![t].pc = IF isLast THEN "save_docs"
                                                ELSE "delete"]
            /\ stable' = IF isLast THEN documents_data' ELSE stable
            /\ hb' = IF isLast THEN HbLegal(HbTouched(hb, k), documents_data')
                     ELSE HbTouched(hb, k)
            /\ UNCHANGED <<running, served, accepted>>
            /\ UNCHANGED <<documents_file, embeddings_file, last, failures>>
            /\ UNCHANGED chunkVars

\* clear_all: self.documents_data = {}; self.embeddings_data = {}
ClearMaps ==
    \E t \in Slots :
        /\ At(t, {"clear"}, "clear")
        /\ documents_data' = << >>
        /\ embeddings_data' = << >>
        /\ Goto(t, "save_docs")
        /\ stable' = << >>
        /\ hb' = HbLegal(HbDetached(hb, documents_data), << >>)
        /\ UNCHANGED accepted
        /\ UNCHANGED <<documents_file, embeddings_file, last>>
        /\ UNCHANGED chunkVars

\* self._save_documents() of a mutating method; when it raises the method
\* raises
SaveDocs ==
    \E t \in Slots, o \in SaveOutcomes :
        /\ At(t, MutatingHandlers, "save_docs")
        /\ o # "ok" => failures < MaxFailures
        /\ documents_file' = SaveFile(documents_data, o, documents_file)
        /\ IF o = "ok" THEN Goto(t, "save_emb") ELSE Finish(t, FALSE, << >>)
        /\ UNCHANGED <<hb, stable, accepted>>
        /\ UNCHANGED <<documents_data, embeddings_data, embeddings_file, last>>
        /\ UNCHANGED chunkVars

\* self._save_embeddings() of a mutating method, and its return
SaveEmb ==
    \E t \in Slots, o \in SaveOutcomes :
        /\ At(t, MutatingHandlers, "save_emb")
        /\ o # "ok" => failures < MaxFailures
        /\ embeddings_file' = SaveFile(embeddings_data, o, embeddings_file)
        /\ Finish(t, o = "ok", << >>)
        /\ UNCHANGED <<hb, stable, accepted>>
        /\ UNCHANGED <<documents_data, embeddings_data, documents_file, last>>
        /\ UNCHANGED chunkVars

\* GET /documents: list_documents() on the event loop
ListRead ==
    \E t \in Slots :
        /\ At(t, {"list"}, "list")
        /\ Finish(t, TRUE, ListDocuments(documents_data))
        /\ UNCHANGED <<hb, stable, accepted>>
        /\ UNCHANGED <<documents_data, embeddings_data, documents_file,
                       embeddings_file, last>>
        /\ UNCHANGED chunkVars

\* the heartbeat calls list_documents(): the for statement takes an iterator
\* of self.documents_data.items()
HbBegin ==
    /\ hb.pc = "sleep"
    /\ hb.n < MaxHeartbeats
    /\ hb' = [pc |-> "iter", n |-> hb.n + 1, size |-> Len(documents_data),
              seen |-> {}, stats |-> << >>, dirty |-> FALSE,
              detached |-> FALSE, own |-> << >>, legal |-> {stable},
              result |-> << >>]
    /\ UNCHANGED <<tasks, running, stable, served, accepted>>
    /\ UNCHANGED <<documents_data, embeddings_data, documents_file,
                   embeddings_file, last, failures>>
    /\ UNCHANGED chunkVars

HbReturn(h, result) ==
    [pc |-> "sleep", n |-> h.n, result |-> result, legal |-> h.legal]

\* One next() of the heartbeat's iterator and the loop body, or the return.
\* A dict whose size changed raises RuntimeError, which list_documents
\* catches to return [].
HbNext ==
    /\ hb.pc = "iter"
    /\ LET d == IF hb.detached THEN hb.own ELSE documents_data
           rest == {i \in DOMAIN d : d[i].key \notin hb.seen}
           nexts == IF hb.dirty THEN rest
                    ELSE {i \in rest : \A j \in rest : i <= j}
       IN  IF Len(d) # hb.size
           THEN hb' = HbReturn(hb, << >>)
           ELSE \/ /\ rest = {} \/ hb.dirty
                   /\ hb' = HbReturn(hb, hb.stats)
                \/ \E i \in nexts :
                      hb' = [hb EXCEPT
                               !.seen = @ \cup {d[i].key},
                               !.stats = ListDocumentsFrom(<<d[i]>>, 1, hb.stats)]
    /\ UNCHANGED <<tasks, running, stable, served, accepted>>
    /\ UNCHANGED <<documents_data, embeddings_data, documents_file,
                   embeddings_file, last, failures>>
    /\ UNCHANGED chunkVars

\* The store behind the request handlers, with the heartbeat reading it.
NextConc ==
    \/ Accept
    \/ Dispatch
    \/ UploadEncode
    \/ UploadStore
    \/ DeleteFind
    \/ DeleteStep
    \/ ClearMaps
    \/ SaveDocs
    \/ SaveEmb
    \/ ListRead
    \/ HbBegin
    \/ HbNext

SpecConc == Init /\ [][NextConc]_vars

\* C1: _create_chunks terminates for every text and every configuration with
\* chunk_size > 0 and 0 <= overlap < chunk_size.  The loop is deterministic in
\* the cursor (text and configuration are fixed), so it terminates exactly
\* when no cursor value comes back to the loop head a second time.
C1_Terminates == ~(cpc = "loop" /\ start < Len(text) /\ start \in visited)

\* ------------------------------------------------------------------------
\* Helpers of the properties
\* ------------------------------------------------------------------------
Entries(d) == {d[i] : i \in DOMAIN d}

\* the metadata records of document x
DocRecords(d, x) == {e \in Entries(d) : e.val.filename = x}

\* the vectors stored under a chunk id of document x
DocVectors(d, x) == {e \in Entries(d) : e.key[1] = x}

RECURSIVE SumLen(_)
SumLen(cs) == IF cs = << >> THEN 0 ELSE Len(Head(cs)) + SumLen(Tail(cs))

Mutators == {"add", "remove", "clear"}

\* both in-memory maps and both persisted maps agree, whatever the map order
SameStore(s, t) ==
    /\ Entries(s.docs) = Entries(t.docs)
    /\ Entries(s.emb) = Entries(t.emb)
    /\ Entries(LoadFile(s.dfile)) = Entries(LoadFile(t.dfile))
    /\ Entries(LoadFile(s.efile)) = Entries(LoadFile(t.efile))

\* the store after the step
SnapshotNext == [docs |-> documents_data', emb |-> embeddings_data',
                 dfile |-> documents_file', efile |-> embeddings_file']

\* C2: in every reachable state of the KnowledgeBase the key set of
\* documents_data equals the key set of embeddings_data.
C2_KeysInLockstep == DictKeys(documents_data) = DictKeys(embeddings_data)

\* C3: a mutating operation that fails on a write leaves both in-memory maps
\* and both persisted files as they were before it started.
C3_NoPartialCommit ==
    [][(last'.op \in Mutators /\ ~last'.ok) =>
         /\ documents_data' = documents_data
         /\ embeddings_data' = embeddings_data
         /\ documents_file' = documents_file
         /\ embeddings_file' = embeddings_file]_vars

\* C4: after a successful add_document(d, chunks) the store holds exactly one
\* record per element of chunks for d, keyed by d and the index, and
\* list_documents reports chunk_count = len(chunks) and total_size = the sum
\* of the chunk lengths for d.
C4_ExactlyTheChunksGiven ==
    (last.op = "add" /\ last.ok) =>
        LET d == last.filename
            cs == last.text_chunks
            listed == {e \in Entries(ListDocuments(documents_data)) : e.filename = d}
        IN  /\ {e.key : e \in DocRecords(documents_data, d)}
                 = {ChunkId(d, i) : i \in 0..(Len(cs) - 1)}
            /\ \A i \in 0..(Len(cs) - 1) :
                 DictGet(documents_data, ChunkId(d, i)).text = cs[i + 1]
            /\ listed = {[filename |-> d, chunk_count |-> Len(cs),
                          total_size |-> SumLen(cs)]}

\* C5: as long as every add_document / remove_document / clear_all call has
\* succeeded, a store loaded afresh from the storage location has the same two
\* maps as the store in memory, and the same list_documents() output.
C5_RoundTripPersistence ==
    failures = 0 =>
        /\ LoadEffect(Snapshot).docs = documents_data
        /\ LoadEffect(Snapshot).emb = embeddings_data
        /\ ListDocuments(LoadEffect(Snapshot).docs) = ListDocuments(documents_data)

\* a store with two documents, one of them of two chunks, has just been loaded
\* afresh after successful operations only
C5_Witness ==
    /\ failures = 0
    /\ last.op = "load"
    /\ \E e \in Entries(ListDocuments(documents_data)) : e.chunk_count = 2
    /\ Len(ListDocuments(documents_data)) = 2

\* the chunk ids search_similar can return: those held by both maps
Searchable == DictKeys(documents_data) \cap DictKeys(embeddings_data)

SimilarityTo(query, id) ==
    CosineSimilarity(Embed(query), DictGet(embeddings_data, id))

\* C6: search_similar(query, k) on a store with n searchable chunks returns
\* min(k, n) results, distinct chunks none of which is less similar to the
\* query than a chunk left out, in order of non-increasing similarity, each
\* with distance = 1 - similarity and with that chunk's text and filename at
\* the same position.
C6_SearchRanking ==
    (last.op = "search" /\ ~last.error) =>
        LET r == last.result
            q == last.query
            m == Min(last.n_results, Cardinality(Searchable))
            returned == {r.ids[i] : i \in DOMAIN r.ids}
        IN  /\ Len(r.ids) = m
            /\ Len(r.documents) = m
            /\ Len(r.sources) = m
            /\ Len(r.distances) = m
            /\ returned \subseteq Searchable
            /\ Cardinality(returned) = m
            /\ \A i \in 1..m :
                 /\ r.documents[i] = DictGet(documents_data, r.ids[i]).text
                 /\ r.sources[i] = DictGet(documents_data, r.ids[i]).filename
                 /\ r.distances[i] = Scale - SimilarityTo(q, r.ids[i])
            /\ \A i \in 1..(m - 1) : r.distances[i] <= r.distances[i + 1]
            /\ \A id \in returned, other \in Searchable \ returned :
                 SimilarityTo(q, id) >= SimilarityTo(q, other)

\* two of more than two searchable chunks were returned, at different distances
C6_Witness ==
    /\ last.op = "search"
    /\ ~last.error
    /\ Cardinality(Searchable) > 2
    /\ Len(last.result.ids) = 2
    /\ last.result.distances[1] < last.result.distances[2]

\* C7: after remove_document(d) returns, no record of d remains in either
\* map, and the records of every other document are unchanged in both.
C7_RemoveFrame ==
    [][(last'.op = "remove" /\ last'.ok) =>
         LET d == last'.filename
         IN  /\ DocRecords(documents_data', d) = {}
             /\ DocVectors(embeddings_data', d) = {}
             /\ \A x \in Docs \ {d} :
                  /\ DocRecords(documents_data', x) = DocRecords(documents_data, x)
                  /\ DocVectors(embeddings_data', x) = DocVectors(embeddings_data, x)]_vars

\* C8 as stated: a successful add_document(x, chunks) followed by a successful
\* remove_document(x) returns both in-memory maps and both persisted maps to
\* what they were before the add.  Stated on every successful add step: the
\* store that remove_document(x) makes of the store after the add is the
\* store before the add.
C8_AddRemoveRoundTrip ==
    [][(last'.op = "add" /\ last'.ok) =>
         SameStore(RemoveEffect(SnapshotNext, last'.filename, <<"ok", "ok">>),
                   Snapshot)]_vars

\* C8, amended: on a store that held no chunk of x in either map, a
\* successful add_document(x, chunks) followed by a successful
\* remove_document(x) returns both in-memory maps to what they were before
\* the add, and leaves both persisted maps equal to those in-memory maps.
C8_AddRemoveRoundTripFresh ==
    [][(last'.op = "add" /\ last'.ok /\ FreshFor(Snapshot, last'.filename)) =>
         LET r == RemoveEffect(SnapshotNext, last'.filename, <<"ok", "ok">>)
         IN  /\ Entries(r.docs) = Entries(documents_data)
             /\ Entries(r.emb) = Entries(embeddings_data)
             /\ Entries(LoadFile(r.dfile)) = Entries(r.docs)
             /\ Entries(LoadFile(r.efile)) = Entries(r.emb)]_vars

\* the two chunks of x just added to such a store, one that holds another
\* document, have been removed again
C8_Witness ==
    /\ last.op = "remove"
    /\ last.ok
    /\ last.undoes
    /\ last.removed = 2
    /\ documents_data # << >>

\* C9: remove_document(d) on a store that holds no chunk of d does not raise
\* and changes neither map nor file nor the output of list_documents(); a
\* further remove_document(d) changes nothing either.
C9_RemoveAbsentIsNoOp ==
    [][(last'.op = "remove" /\ DocRecords(documents_data, last'.filename) = {}) =>
         /\ last'.ok
         /\ documents_data' = documents_data
         /\ embeddings_data' = embeddings_data
         /\ documents_file' = documents_file
         /\ embeddings_file' = embeddings_file
         /\ ListDocuments(documents_data') = ListDocuments(documents_data)
         /\ \A o \in SavePairs :
              RemoveEffect(SnapshotNext, last'.filename, o) = SnapshotNext]_vars

\* remove_document found nothing to remove in a store that holds documents
C9_Witness ==
    /\ last.op = "remove"
    /\ last.removed = 0
    /\ last.ok
    /\ documents_data # << >>
    /\ documents_file.st = "ok"

\* C10: a store loaded while a persisted file is corrupt is an empty store:
\* both maps are empty, list_documents() returns nothing and search_similar
\* returns three empty sequences.
C10_CorruptLoadsEmpty ==
    (last.op = "load" /\ (documents_file.st = "corrupt"
                          \/ embeddings_file.st = "corrupt")) =>
        /\ documents_data = << >>
        /\ embeddings_data = << >>
        /\ ListDocuments(documents_data) = << >>
        /\ \A q \in Queries, k \in 0..MaxK :
             SearchResults(documents_data, embeddings_data, q, k) = {EmptyResult}

\* ------------------------------------------------------------------------
\* Concurrent requests
\* ------------------------------------------------------------------------
\* C11: at most one mutating store operation (add_document, remove_document,
\* clear_all) is inside its read-modify-write-persist sequence at any time:
\* the steps of two mutating operations never interleave.
C11_OneMutatorAtATime ==
    Cardinality({t \in running : tasks[t].kind \in MutatingHandlers}) <= 1

\* an upload is between its two saves while another mutating request waits
\* for the event loop
C11_Witness ==
    \E t, u \in Slots :
        /\ t # u
        /\ t \in running
        /\ tasks[t].kind = "upload"
        /\ tasks[t].pc = "save_emb"
        /\ u \notin running
        /\ tasks[u].kind \in MutatingHandlers

\* C12: a read (list_documents, search_similar) running while other requests
\* are handled never observes a half-written state: what it returns is what
\* it would return on the store as some completed in-memory mutation left
\* it, never a document with only some of the chunks of an add or remove in
\* progress.
C12_ReadsSeeNoHalfWrittenState ==
    /\ served.op = "list" => served.view = served.legal
    /\ (hb.pc = "sleep" /\ hb.n > 0) =>
          hb.result \in {ListDocuments(d) : d \in hb.legal}

\* ------------------------------------------------------------------------
\* Queries and listings of the store
\* ------------------------------------------------------------------------
\* C17: search_similar(query, k) on a store that holds no chunks returns three
\* empty sequences, for every query and every k, and does not raise.
C17_EmptyStoreSearch ==
    (last.op = "search" /\ documents_data = << >> /\ embeddings_data = << >>) =>
        /\ ~last.raised
        /\ last.result.documents = << >>
        /\ last.result.sources = << >>
        /\ last.result.distances = << >>

\* a search for MaxK results on a store that was emptied again
C17_Witness ==
    /\ last.op = "search"
    /\ last.n_results = MaxK
    /\ documents_data = << >>
    /\ embeddings_data = << >>
    /\ documents_file.st = "ok"
    /\ last.result = EmptyResult

\* C18: clear_all(), from any store state, leaves both in-memory maps and
\* both persisted maps empty: list_documents() then returns no document,
\* search_similar returns empty sequences, and a fresh load from the same
\* storage gives an empty store.  Stated for the calls that return.
C18_ClearAllEmpties ==
    (last.op = "clear" /\ last.ok) =>
        /\ documents_data = << >>
        /\ embeddings_data = << >>
        /\ documents_file = [st |-> "ok", data |-> << >>]
        /\ embeddings_file = [st |-> "ok", data |-> << >>]
        /\ ListDocuments(documents_data) = << >>
        /\ \A query \in Queries, n_results \in 0..MaxK :
              SearchResults(documents_data, embeddings_data, query, n_results)
                 = {EmptyResult}
        /\ LoadEffect(Snapshot).docs = << >>
        /\ LoadEffect(Snapshot).emb = << >>

\* clear_all() has returned on a store that held records of two documents
C18_Witness ==
    /\ last.op = "clear"
    /\ last.ok
    /\ last.cleared >= 3

RECURSIVE SumText(_)
SumText(S) ==
    IF S = {} THEN 0
    ELSE LET e == CHOOSE x \in S : TRUE
         IN  Len(e.val.text) + SumText(S \ {e})

RECURSIVE SumCounts(_)
SumCounts(l) == IF l = << >> THEN 0 ELSE Head(l).chunk_count + SumCounts(Tail(l))

\* the place of the first record of document x in the metadata map
FirstSeen(d, x) == CHOOSE i \in DOMAIN d :
                      /\ d[i].val.filename = x
                      /\ \A j \in 1..(i - 1) : d[j].val.filename # x

\* C19: list_documents() returns exactly one entry per document_id of the
\* metadata map, with chunk_count the number of its records and total_size
\* the sum of their chunk lengths; the chunk_counts sum to the number of
\* records; the entries come in the first-seen order of the metadata map.
C19_ListDocuments ==
    LET l == ListDocuments(documents_data)
    IN  /\ {l[j].filename : j \in DOMAIN l}
              = {e.val.filename : e \in Entries(documents_data)}
        /\ \A j, k \in DOMAIN l : l[j].filename = l[k].filename => j = k
        /\ \A j \in DOMAIN l :
              /\ l[j].chunk_count
                    = Cardinality(DocRecords(documents_data, l[j].filename))
              /\ l[j].total_size
                    = SumText(DocRecords(documents_data, l[j].filename))
        /\ SumCounts(l) = Len(documents_data)
        /\ \A j, k \in DOMAIN l :
              j < k => FirstSeen(documents_data, l[j].filename)
                          < FirstSeen(documents_data, l[k].filename)

\* two documents listed, "b" first, with the records of "a" and "b"
\* alternating in the metadata map
C19_Witness ==
    LET l == ListDocuments(documents_data)
    IN  /\ Len(l) = 2
        /\ l[1].filename = "b"
        /\ l[1].chunk_count = 2
        /\ l[1].total_size = 3
        /\ l[2].chunk_count = 1
        /\ Len(documents_data) = 3
        /\ documents_data[2].val.filename = "a"

\* C20: an error inside search_similar (the embedding computation or the
\* similarity scan failing) reaches the caller as a failure, not as a normal
\* result.
C20_SearchErrorPropagates ==
    (last.op = "search" /\ last.error) => last.raised

\* ------------------------------------------------------------------------
\* The chunker's windows and chunks
\* ------------------------------------------------------------------------
\* the window <<start, end>> of an iteration emitted a chunk: text[start:end]
\* is not empty after strip()
Emits(sp) == Strip(Slice(text, sp[1], sp[2])) # << >>

\* the windows of the chunks emitted so far, in order
EmittedSpans == SelectSeq(spans, Emits)

\* the positions of the text inside an emitted window
Covered == {p \in 0..(Len(text) - 1) :
              \E i \in DOMAIN EmittedSpans :
                 EmittedSpans[i][1] <= p /\ p < EmittedSpans[i][2]}

\* C13 as stated: for every text longer than chunk_size, consecutive chunks
\* satisfy start(i+1) = end(i) - overlap: each chunk after the first starts
\* exactly overlap characters before the adjusted end of the previous chunk.
C13_ConsecutiveChunks ==
    \A i \in 1..(Len(EmittedSpans) - 1) :
        EmittedSpans[i + 1][1] = EmittedSpans[i][2] - overlap

\* C13, amended: consecutive windows of the cursor loop satisfy
\* start(i+1) = end(i) - overlap, and every chunk is the trimmed text of a
\* window with 0 <= start < end; a window that is empty after trimming emits
\* no chunk, so two consecutive chunks satisfy the equation (hence
\* start(i+1) <= end(i)) when no window was skipped between them.
C13_ConsecutiveWindows ==
    /\ \A i \in 1..(Len(spans) - 1) : spans[i + 1][1] = spans[i][2] - overlap
    /\ \A i \in DOMAIN spans :
          Emits(spans[i]) => 0 <= spans[i][1] /\ spans[i][1] < spans[i][2]
    /\ \A i \in 1..(Len(spans) - 1) :
          Emits(spans[i]) /\ Emits(spans[i + 1]) =>
             /\ spans[i + 1][1] = spans[i][2] - overlap
             /\ spans[i + 1][1] <= spans[i][2]

\* a finished run with a positive overlap that skipped a window between two
\* chunks
C13_Witness ==
    /\ cpc = "done"
    /\ overlap > 0
    /\ Len(EmittedSpans) >= 2
    /\ Len(EmittedSpans) < Len(spans)
    /\ Emits(spans[Len(spans)])

C15_ShortTextWhole ==
    (cpc = "done" /\ Len(text) <= chunk_size) => chunks = <<text>>

\* the empty text returned whole, by a chunker whose overlap is not below its
\* chunk_size
C15_Witness ==
    /\ cpc = "done"
    /\ text = << >>
    /\ overlap >= chunk_size
    /\ chunks = << << >> >>

\* C16: a chunker with chunk_size <= 0 or overlap >= chunk_size is rejected
\* at construction, so no run of _create_chunks executes with such a
\* configuration.
C16_InvalidConfigRejected ==
    cpc # "entry" => (chunk_size > 0 /\ overlap < chunk_size)

\* ------------------------------------------------------------------------
\* The cursor loop: its last window, its progress, the shape of its chunks

\* C23: once an iteration has emitted a chunk whose window reaches the end of
\* the text (end >= len(text)), the loop stops and emits no further chunk:
\* that iteration is the last one, so the last chunk is never a suffix that
\* the chunk before it already holds.
C23_StopsAtEndOfText ==
    \A i \in DOMAIN spans :
        (Emits(spans[i]) /\ spans[i][2] >= Len(text)) =>
            /\ i = Len(spans)
            /\ cpc = "done"

\* C24: for 0 <= overlap < chunk_size, every iteration leaves the cursor
\* strictly greater than it found it, and never negative.
C24_CursorProgress ==
    \A i \in DOMAIN spans :
        /\ Advance(spans[i][2]) > spans[i][1]
        /\ Advance(spans[i][2]) >= 0

\* Where the chunk of a window begins in the text: the window's start moved
\* past the whitespace that strip() drops on the left.
ChunkStart(sp) ==
    sp[1] + (Len(Slice(text, sp[1], sp[2])) - Len(LStrip(Slice(text, sp[1], sp[2]))))

\* C30: for len(text) > chunk_size every emitted chunk is non-empty, begins
\* and ends with a non-whitespace character, is at most chunk_size long and
\* is a contiguous substring of the text; in the returned list the chunks
\* stand in increasing order of their start position: the cursor values they
\* were cut at are strictly increasing, and the positions of their first
\* characters never decrease.
C30_ChunkShape ==
    (cpc \in {"loop", "done"} /\ Len(text) > chunk_size) =>
        /\ Len(chunks) = Len(EmittedSpans)
        /\ \A i \in DOMAIN chunks :
               LET c == chunks[i]
                   a == ChunkStart(EmittedSpans[i])
               IN  /\ c # << >>
                   /\ c[1] # " "
                   /\ c[Len(c)] # " "
                   /\ Len(c) <= chunk_size
                   /\ a >= 0
                   /\ a + Len(c) <= Len(text)
                   /\ c = SubSeq(text, a + 1, a + Len(c))
        /\ cpc = "done" =>
               \A i, j \in DOMAIN chunks :
                   i < j =>
                       /\ EmittedSpans[i][1] < EmittedSpans[j][1]
                       /\ ChunkStart(EmittedSpans[i]) <= ChunkStart(EmittedSpans[j])

\* C30 (witness): a returned list of three chunks, one of them shorter than
\* its window because strip() dropped whitespace.
C30_Witness ==
    /\ cpc = "done"
    /\ Len(text) > chunk_size
    /\ Len(chunks) >= 3
    /\ \E i \in DOMAIN chunks :
           ChunkStart(EmittedSpans[i]) > EmittedSpans[i][1]

\* ------------------------------------------------------------------------
\* The store: what is persisted, what a search can return

\* C25: after every mutating operation that returns successfully (a remove
\* that finds nothing and an operation that follows a failed one included)
\* the persisted metadata map equals the in-memory metadata map and the
\* persisted vector map equals the in-memory vector map.
C25_PersistedEqualsMemory ==
    (last.op \in Mutators /\ last.ok) =>
        /\ LoadFile(documents_file) = documents_data
        /\ LoadFile(embeddings_file) = embeddings_data

\* The (text, source) pair at position i of a search result is a record of
\* the metadata map d, under the chunk id of that position.
Held(d, res, i) ==
    \E e \in Entries(d) :
        /\ e.key = res.ids[i]
        /\ e.val.text = res.documents[i]
        /\ e.val.filename = res.sources[i]

\* C29: search_similar returns only chunks the store holds: every returned
\* (text, source) pair is a record of the metadata map at the time of the
\* call; a remove_document(d) leaves no record of d and a clear_all leaves no
\* record at all, whether or not their saves succeed; and a store object
\* comes to hold a record of d again only by add_document(d) (a restart
\* builds a new store object from the files).
C29_SearchReturnsHeldChunks ==
    [][/\ last'.op = "search" =>
              /\ Len(last'.result.documents) = Len(last'.result.ids)
              /\ Len(last'.result.sources) = Len(last'.result.ids)
              /\ \A i \in DOMAIN last'.result.ids :
                     Held(documents_data, last'.result, i)
       /\ last'.op = "remove" =>
              DocRecords(documents_data', last'.filename) = {}
       /\ last'.op = "clear" => documents_data' = << >>
       /\ documents_data' # documents_data =>
              \A x \in Docs :
                  (DocRecords(documents_data, x) = {}
                       /\ DocRecords(documents_data', x) # {}) =>
                      \/ last'.op = "add" /\ last'.filename = x
                      \/ last'.op = "load"]_vars

\* C29 (witness): a search that returned chunks while the vector map still
\* held a vector of a document the metadata map no longer has.
C29_Witness ==
    /\ last.op = "search"
    /\ last.result.ids # << >>
    /\ \E x \in Docs :
           /\ DocVectors(embeddings_data, x) # {}
           /\ DocRecords(documents_data, x) = {}

\* ------------------------------------------------------------------------
\* Ingestion: the bulk scan and the upload endpoint

\* the elements of a sequence
Range(q) == {q[i] : i \in DOMAIN q}

\* the file names an error list speaks of
Blamed(errors) == {errors[i][2] : i \in DOMAIN errors}

\* C22: process_upload_folder never aborts the batch: the call returns, and
\* every supported file of the folder, those behind a failing file included,
\* ends in exactly one of processed_files, skipped_files and errors, exactly
\* once; total_chunks counts the chunks of the processed files.
C22_BatchNeverAborts ==
    last.op = "scan" =>
        LET r == last.results
            names == {last.folder[i].name :
                        i \in {j \in DOMAIN last.folder :
                                 last.folder[j].suffix \in Supported}}
            P == Range(r.processed_files)
            S == Range(r.skipped_files)
            E == Blamed(r.errors)
        IN  /\ ~last.raised
            /\ P \cup S \cup E = names
            /\ P \cap S = {} /\ P \cap E = {} /\ S \cap E = {}
            /\ Len(r.processed_files) + Len(r.skipped_files) + Len(r.errors)
                   = Cardinality(names)
            /\ r.total_chunks
                   = SumCounts([i \in DOMAIN r.processed_files |->
                                  [chunk_count |->
                                     Len(FileChunks(r.processed_files[i]))]])

\* C22 (witness): a scan of two supported files whose first file failed and
\* whose second file was processed.
C22_Witness ==
    /\ last.op = "scan"
    /\ Len(last.document_files) = 2
    /\ last.results.errors = <<ErrorMsg(last.document_files[1].name)>>
    /\ last.results.processed_files = <<last.document_files[2].name>>

\* C26: in a bulk scan a file whose name is already a document of the store
\* is skipped: it is reported in skipped_files and add_document is not called
\* for it, so it is neither processed nor an error.
C26_KnownFilesSkipped ==
    last.op = "scan" =>
        \A i \in DOMAIN last.document_files :
            LET file_name == last.document_files[i].name
            IN  file_name \in last.before =>
                    /\ file_name \in Range(last.results.skipped_files)
                    /\ file_name \notin Range(last.results.processed_files)
                    /\ file_name \notin Blamed(last.results.errors)

\* C28: an upload whose suffix is not .pdf, .docx or .doc is answered with
\* HTTP 400 and has no side effect: no file written, no chunk added, neither
\* map nor file of the store changed.
C28_UnsupportedUploadIs400 ==
    [][(last'.op = "upload" /\ last'.file.suffix \notin Supported) =>
           /\ last'.status = 400
           /\ ~last'.wrote
           /\ ~last'.added
           /\ SnapshotNext = Snapshot]_vars

\* ------------------------------------------------------------------------
\* The chat handler: relevance filter and failure of the LLM

\* the positions of the retrieved chunks with distance < 1.0
Near(res) == {i \in DOMAIN res.distances : res.distances[i] < Scale}

\* C21: when the call of the LLM fails for a query with relevant chunks,
\* generate_response does not raise: it returns the non-LLM fallback answer
\* built from the retrieved chunks, together with the relevant sources.
C21_LlmFailureFallsBack ==
    (last.op = "chat" /\ last.llm_failed) =>
        /\ ~last.raised
        /\ last.response.kind = "fallback"
        /\ last.response.context # << >>
        /\ Range(last.response.context) \subseteq
               {last.retrieved.documents[i] : i \in Near(last.retrieved)}
        /\ Range(last.sources)
               = {last.retrieved.sources[i] : i \in Near(last.retrieved)}

\* C27 (as stated): generate_response uses only chunks with distance < 1.0:
\* the LLM is called only with such chunks, the returned sources hold no
\* duplicate and each is the document of a chunk with distance < 1.0, and
\* when no retrieved chunk has distance < 1.0 the no-relevant-content answer
\* is returned with empty sources and the LLM is not called.
C27_OnlyRelevantChunks ==
    last.op = "chat" =>
        LET res == last.retrieved
        IN  /\ \A k \in DOMAIN last.llm_docs :
                   \E i \in Near(res) : res.documents[i] = last.llm_docs[k]
            /\ last.response.kind = "llm" =>
                   /\ last.llm_called
                   /\ Range(last.response.context) \subseteq Range(last.llm_docs)
            /\ \A k, m \in DOMAIN last.sources :
                   k # m => last.sources[k] # last.sources[m]
            /\ \A k \in DOMAIN last.sources :
                   \E i \in Near(res) : res.sources[i] = last.sources[k]
            /\ Near(res) = {} =>
                   /\ last.response.kind = "no_relevant"
                   /\ last.sources = << >>
                   /\ ~last.llm_called

\* C27 (amended): as above, but when nothing was retrieved at all (an empty
\* store, or a search that failed) the answer is the no-content answer, and
\* the no-relevant-content answer is returned when chunks were retrieved and
\* none of them has distance < 1.0.
C27_OnlyRelevantChunksRetrieved ==
    last.op = "chat" =>
        LET res == last.retrieved
        IN  /\ \A k \in DOMAIN last.llm_docs :
                   \E i \in Near(res) : res.documents[i] = last.llm_docs[k]
            /\ last.response.kind = "llm" =>
                   /\ last.llm_called
                   /\ Range(last.response.context) \subseteq Range(last.llm_docs)
            /\ \A k, m \in DOMAIN last.sources :
                   k # m => last.sources[k] # last.sources[m]
            /\ \A k \in DOMAIN last.sources :
                   \E i \in Near(res) : res.sources[i] = last.sources[k]
            /\ Near(res) = {} =>
                   /\ last.response.kind = IF res.documents = << >>
                                           THEN "no_content"
                                           ELSE "no_relevant"
                   /\ last.sources = << >>
                   /\ ~last.llm_called

\* C27 (witness): the LLM was called for a query that retrieved four
\* chunks, two of them at distance exactly 1.0, and the two nearer ones of
\* different documents gave two sources.
C27_Witness ==
    /\ last.op = "chat"
    /\ last.llm_called
    /\ Len(last.retrieved.documents) = 4
    /\ \E i \in DOMAIN last.retrieved.distances :
           last.retrieved.distances[i] = Scale
    /\ Len(last.llm_docs) = 2
    /\ Len(last.sources) = 2

====
